---- MODULE Spec2Model ----
(***************************************************************************)
(* Model of the notification service (notification-ms): the subscribers    *)
(* map guarded by mu, SubscribeToNotifications (one goroutine per gRPC     *)
(* stream), the two NATS callbacks of subscribeToEvents and broadcast.     *)
(*                                                                         *)
(* A buffered Go channel is modelled with the runtime's semantics: a       *)
(* buffer, the queue of senders parked on it, and the closed flag.  A      *)
(* sender parks only on a full buffer; a receive on a full buffer with a   *)
(* parked sender hands that sender's value into the buffer in the same     *)
(* step; a send on a closed channel, or a close under a parked sender,     *)
(* panics.  An unrecovered panic ends the process: no goroutine runs       *)
(* afterwards.                                                             *)
(***************************************************************************)
EXTENDS Integers, Sequences, FiniteSets, TLC

\* ---- bounds of the model ------------------------------------------------
MaxMsgs == 2            \* bus messages consumed over a run
ChanCap == 1            \* capacity of sub.ch (make(chan, 10) in the code, scaled)

Sessions == {1, 2}      \* calls of SubscribeToNotifications, in order of arrival
MsgIds == 1..MaxMsgs
Users == {"u1", "u2"}
UserIds == Users \cup {""}   \* a userId string may be empty
Subjects == {"user.created", "bill.update"}
Names == {"Ana"}
Texts == {"Balance: $42.00"}
None == 0

VARIABLES
    subscribers,  \* s.subscribers: userID -> *subscriber (the session owning it) or None
    ch,           \* sub.ch of each session's subscriber
    spc,          \* position of each SubscribeToNotifications call
    suser,        \* sub.userId / userID of each session
    cancelled,    \* stream.Context().Done() is closed
    stream,       \* notifications stream.Send accepted, per session, in order
    bpc,          \* position of each NATS callback (one goroutine per subscription)
    bevent,       \* event the callback unmarshalled (callback local)
    bnotif,       \* notif built by the callback
    bsub,         \* sub that broadcast read from the map
    nextId,       \* bus messages consumed so far + 1; names the message and its notif
    msgUser,      \* the recipient id each decodable bus message carried
    result,       \* what became of each bus message
    enq,          \* history: ids of the notifications that entered each sub.ch, in order
    failed,       \* history: id of the notification whose stream.Send failed, per session
    crashed,      \* an unrecovered panic ended the process
    mu            \* s.mu: the goroutines holding it for writing, and for reading

vars == <<subscribers, ch, spc, suser, cancelled, stream,
          bpc, bevent, bnotif, bsub, nextId, msgUser, result, enq, failed, crashed,
          mu>>

NoNotif == [id |-> 0, userId |-> "", message |-> <<>>]

\* the zero event: what a callback holds before, and after a failed, Unmarshal
NoEvent == [ok |-> FALSE, id |-> "", text |-> ""]

\* ---- the channel ---------------------------------------------------------
makeChan == [buf |-> <<>>, sendq |-> <<>>, closed |-> FALSE]

RECURSIVE SeqWithout(_, _)
SeqWithout(q, x) ==
    IF q = <<>> THEN <<>>
    ELSE IF Head(q) = x THEN SeqWithout(Tail(q), x)
    ELSE <<Head(q)>> \o SeqWithout(Tail(q), x)

SeqRange(q) == {q[i] : i \in 1..Len(q)}

\* a channel whose buffer takes any number of values
chanHasRoomAlways(c) == TRUE

\* a send completes at once iff the buffer has a free slot
chanHasRoom(c) == Len(c.buf) < ChanCap

chanPut(c, n) == [c EXCEPT !.buf = Append(@, n)]

chanPark(c, b) == [c EXCEPT !.sendq = Append(@, b)]

chanUnpark(c, b) == [c EXCEPT !.sendq = SeqWithout(@, b)]

\* a receive that reads the head without removing it
chanRecvKeepHead(c, notifs) ==
    IF c.sendq = <<>>
    THEN c
    ELSE [c EXCEPT !.buf = Append(@, notifs[Head(c.sendq)]),
                   !.sendq = Tail(@)]

\* <-c on a non-empty buffer: the head leaves; the first parked sender's value enters
chanRecv(c, notifs) ==
    IF c.sendq = <<>>
    THEN [c EXCEPT !.buf = Tail(@)]
    ELSE [c EXCEPT !.buf = Append(Tail(@), notifs[Head(c.sendq)]),
                   !.sendq = Tail(@)]

chanClose(c) == [c EXCEPT !.closed = TRUE, !.sendq = <<>>]

\* ---- the subscribers map -------------------------------------------------
register(subs, userID, sub) == [subs EXCEPT ![userID] = sub]

\* a lookup that falls back to some other registered subscriber on a miss
lookupAnySink(subs, userID) ==
    IF subs[userID] # None THEN subs[userID]
    ELSE IF \E u \in UserIds : subs[u] # None
    THEN subs[CHOOSE u \in UserIds : subs[u] # None]
    ELSE None

lookup(subs, userID) == subs[userID]

\* a cleanup that forgets the delete
deleteNothing(subs, userID, sub) == subs

deleteEntry(subs, userID, sub) == [subs EXCEPT ![userID] = None]

\* ---- the RWMutex mu ---------------------------------------------------------
\* the zero sync.RWMutex: nobody holds it
unlocked == [writers |-> {}, readers |-> {}]

\* a Lock that never waits
canLockAlways(m) == TRUE

\* mu.Lock() returns once nobody holds the mutex, for writing or for reading
canLock(m) == m.writers = {} /\ m.readers = {}

\* mu.RLock() returns once nobody holds the mutex for writing
canRLock(m) == m.writers = {}

lockW(m, g) == [m EXCEPT !.writers = @ \cup {g}]
unlockW(m, g) == [m EXCEPT !.writers = @ \ {g}]
lockR(m, g) == [m EXCEPT !.readers = @ \cup {g}]
unlockR(m, g) == [m EXCEPT !.readers = @ \ {g}]

\* ---- construction --------------------------------------------------------
Init ==
    /\ subscribers = [u \in UserIds |-> None]
    /\ ch = [s \in Sessions |-> makeChan]
    /\ spc = [s \in Sessions |-> "Idle"]
    /\ suser = [s \in Sessions |-> ""]
    /\ cancelled = [s \in Sessions |-> FALSE]
    /\ stream = [s \in Sessions |-> <<>>]
    /\ bpc = [b \in Subjects |-> "idle"]
    /\ bevent = [b \in Subjects |-> NoEvent]
    /\ bnotif = [b \in Subjects |-> NoNotif]
    /\ bsub = [b \in Subjects |-> None]
    /\ nextId = 1
    /\ msgUser = [i \in MsgIds |-> ""]
    /\ result = [i \in MsgIds |-> "unused"]
    /\ enq = [s \in Sessions |-> <<>>]
    /\ failed = [s \in Sessions |-> 0]
    /\ crashed = FALSE
    /\ mu = unlocked

\* ---- the gateway's GET /ws handler ----------------------------------------
\* a handler that forwards any userId
acceptsAnyUserId(u) == TRUE

\* handleWebSocket: if userID == "" { 400; return }
acceptsUserId(u) == u # ""

\* the request is answered 400 and no stream is opened
HandleWebSocketReject(s, u) ==
    /\ ~crashed
    /\ spc[s] = "Idle"
    /\ \A r \in Sessions : r < s => spc[r] # "Idle"
    /\ ~acceptsUserId(u)
    /\ spc' = [spc EXCEPT ![s] = "Rejected"]
    /\ suser' = [suser EXCEPT ![s] = u]
    /\ UNCHANGED <<mu, subscribers, ch, cancelled, stream,
                   bpc, bevent, bnotif, bsub, nextId, msgUser, result, enq, failed, crashed>>

\* ---- SubscribeToNotifications (one call per stream) -----------------------
\* The gateway accepts the userId and calls SubscribeToNotifications:
\* userID := req.UserId; sub := &subscriber{ch: make(chan, 10), userId: userID}
SubscribeOpen(s, u) ==
    /\ ~crashed
    /\ spc[s] = "Idle"
    /\ \A r \in Sessions : r < s => spc[r] # "Idle"
    /\ acceptsUserId(u)
    /\ spc' = [spc EXCEPT ![s] = "Attaching"]
    /\ suser' = [suser EXCEPT ![s] = u]
    /\ ch' = [ch EXCEPT ![s] = makeChan]
    /\ UNCHANGED <<mu, subscribers, cancelled, stream,
                   bpc, bevent, bnotif, bsub, nextId, msgUser, result, enq, failed, crashed>>

\* a registration that closes the channel of the entry it replaces
replacedClosed(chs, prev) ==
    IF prev = None THEN chs ELSE [chs EXCEPT ![prev] = chanClose(@)]

\* the channels after s.subscribers[userID] = sub replaced the entry prev: the
\* assignment touches the map only, the previous subscriber's channel is as before
replaced(chs, prev) == chs

\* s.mu.Lock(); s.subscribers[userID] = sub; s.mu.Unlock()
SubscribeRegister(s) ==
    /\ ~crashed
    /\ spc[s] = "Attaching"
    /\ subscribers' = register(subscribers, suser[s], s)
    /\ ch' = replaced(ch, lookup(subscribers, suser[s]))
    /\ spc' = [spc EXCEPT ![s] = "Active"]
    /\ UNCHANGED <<mu, suser, cancelled, stream,
                   bpc, bevent, bnotif, bsub, nextId, msgUser, result, enq, failed, crashed>>

\* The stream's context is cancelled: the gateway's cancel() after the
\* WebSocket read loop fails, or the caller's deadline.  Only the select of the
\* send loop reads the context, so a cancellation that arrives before the
\* registration is taken at the first moment it can be observed.
ContextCancel(s) ==
    /\ ~crashed
    /\ spc[s] = "Active"
    /\ ~cancelled[s]
    /\ cancelled' = [cancelled EXCEPT ![s] = TRUE]
    /\ UNCHANGED <<mu, subscribers, ch, spc, suser, stream,
                   bpc, bevent, bnotif, bsub, nextId, msgUser, result, enq, failed, crashed>>

\* a send-error path that returns without the deferred cleanup
afterSendErrorNoCleanup == "Detached"

\* a send loop that logs the error of stream.Send and goes on
afterSendErrorContinue == "Active"

\* what the send loop does when stream.Send returns an error: return err
\* (the deferred cleanup then runs)
afterSendError == "Detaching"

\* what the send loop does when the context is done: return ctx.Err()
afterContextDone == "Detaching"

\* a Send that puts the notification ahead of those already sent
streamSendFront(st, n) == <<n>> \o st

\* stream.Send(notif) succeeded: the client receives notif after the earlier ones
streamSend(st, n) == Append(st, n)

\* a session that goes on receiving from its channel after it left the loop
inSendLoopOrAfter(pc) == pc \in {"Active", "Detaching", "Closing", "Detached"}

\* the goroutine is in the for/select loop: it has registered and has not
\* returned (every return leaves the loop for the deferred cleanup)
inSendLoop(pc) == pc = "Active"

\* a session that receives from whatever channel the map holds for its user
recvChanRegistered(s) ==
    IF lookup(subscribers, suser[s]) = None THEN s ELSE lookup(subscribers, suser[s])

\* the channel a session receives from: sub.ch of the subscriber it made itself
\* (sub is a local of the call, and channels are named by their session)
recvChan(s) == s

\* case notif := <-sub.ch: stream.Send(notif); sendOk is Send's outcome
SubscribeRecv(s, sendOk) ==
    /\ ~crashed
    /\ inSendLoop(spc[s])
    /\ LET c == recvChan(s)
           woken == IF ch[c].sendq = <<>> THEN {} ELSE {Head(ch[c].sendq)}
       IN /\ ch[c].buf # <<>>
          /\ ch' = [ch EXCEPT ![c] = chanRecv(ch[c], bnotif)]
          /\ bpc' = [b \in Subjects |-> IF b \in woken THEN "idle" ELSE bpc[b]]
          /\ bevent' = [b \in Subjects |-> IF b \in woken THEN NoEvent ELSE bevent[b]]
          /\ bnotif' = [b \in Subjects |-> IF b \in woken THEN NoNotif ELSE bnotif[b]]
          /\ bsub' = [b \in Subjects |-> IF b \in woken THEN None ELSE bsub[b]]
          /\ result' = [i \in MsgIds |->
                          IF \E b \in woken : bnotif[b].id = i
                          THEN "Delivered" ELSE result[i]]
          /\ enq' = IF ch[c].sendq = <<>> THEN enq
                    ELSE [enq EXCEPT ![c] = Append(@, bnotif[Head(ch[c].sendq)].id)]
          /\ IF sendOk
             THEN /\ stream' = [stream EXCEPT ![s] = streamSend(@, Head(ch[c].buf))]
                  /\ UNCHANGED <<spc, failed>>
             ELSE /\ spc' = [spc EXCEPT ![s] = afterSendError]
                  /\ failed' = [failed EXCEPT ![s] = Head(ch[c].buf).id]
                  /\ UNCHANGED stream
    /\ UNCHANGED <<mu, subscribers, suser, cancelled, nextId, msgUser, crashed>>

\* a loop that also returns when it finds nothing to send
contextDoneOrQuiet(s) == cancelled[s] \/ ch[s].buf = <<>>

\* <-stream.Context().Done() is ready: the stream's context has been cancelled
contextDone(s) == cancelled[s]

\* case <-stream.Context().Done(): return
SubscribeDone(s) ==
    /\ ~crashed
    /\ spc[s] = "Active"
    /\ contextDone(s)
    /\ spc' = [spc EXCEPT ![s] = afterContextDone]
    /\ UNCHANGED <<mu, subscribers, ch, suser, cancelled, stream,
                   bpc, bevent, bnotif, bsub, nextId, msgUser, result, enq, failed, crashed>>

\* deferred: s.mu.Lock(); delete(s.subscribers, userID); s.mu.Unlock()
SubscribeUnregister(s) ==
    /\ ~crashed
    /\ spc[s] = "Detaching"
    /\ subscribers' = deleteEntry(subscribers, suser[s], s)
    /\ spc' = [spc EXCEPT ![s] = "Closing"]
    /\ UNCHANGED <<mu, ch, suser, cancelled, stream,
                   bpc, bevent, bnotif, bsub, nextId, msgUser, result, enq, failed, crashed>>

\* a cleanup that is run again after it completed
afterCloseAgain == "Detaching"

\* the deferred function has run: SubscribeToNotifications returns
afterClose == "Detached"

\* deferred: close(sub.ch); a sender parked on the channel panics
SubscribeClose(s) ==
    /\ ~crashed
    /\ spc[s] = "Closing"
    /\ ch' = [ch EXCEPT ![s] = chanClose(ch[s])]
    /\ spc' = [spc EXCEPT ![s] = afterClose]
    /\ LET parked == SeqRange(ch[s].sendq)
       IN /\ bpc' = [b \in Subjects |-> IF b \in parked THEN "panicked" ELSE bpc[b]]
          /\ result' = [i \in MsgIds |->
                          IF \E b \in parked : bnotif[b].id = i
                          THEN "Panicked" ELSE result[i]]
          /\ crashed' = (parked # {})
    /\ UNCHANGED <<mu, subscribers, suser, cancelled, stream,
                   bevent, bnotif, bsub, nextId, msgUser, enq, failed>>

\* ---- subscribeToEvents: the two NATS callbacks ---------------------------
\* a callback that builds every message in the welcome format
decodeWelcomeAll(subject, id, text, msgId) ==
    [id |-> msgId, userId |-> id,
     message |-> <<"Welcome to the platform, ", text, "!">>]

\* the notif a callback builds from the event json.Unmarshal filled in
\* (fmt.Sprintf is modelled as the sequence of the pieces it joins)
decode(subject, id, text, msgId) ==
    IF subject = "user.created"
    THEN [id |-> msgId, userId |-> id,
          message |-> <<"Welcome to the platform, ", text, "!">>]
    ELSE [id |-> msgId, userId |-> id, message |-> <<text>>]

PayloadTexts(subject) == IF subject = "user.created" THEN Names ELSE Texts

\* what msgUser records for a payload that is no JSON object, and for a message
\* published on a subject the service has no subscription for
Malformed == "<malformed>"
OtherSubject == "<other subject>"

\* The payloads a subject carries: ok says whether json.Unmarshal accepts it;
\* id and text are what Unmarshal leaves in the event (a field the payload
\* lacks stays the empty string).
Payloads(subject) ==
    {NoEvent} \cup
    {[ok |-> TRUE, id |-> u, text |-> x] : u \in UserIds, x \in PayloadTexts(subject)}

\* a callback that goes on after a failed Unmarshal
unmarshalErrIgnored(p) == FALSE

\* if err := json.Unmarshal(m.Data, &event); err != nil { log; return }
unmarshalErr(p) == ~p.ok

\* The callback of subject b on a bus message, up to and including the read of
\* the map in broadcast (unmarshalling and building notif touch only the
\* callback's locals):
\*   s.mu.RLock(); sub, ok := s.subscribers[userID]; s.mu.RUnlock(); if !ok return
OnMsg(b, p) ==
    /\ ~crashed
    /\ bpc[b] = "idle"
    /\ nextId <= MaxMsgs
    /\ nextId' = nextId + 1
    /\ msgUser' = [msgUser EXCEPT ![nextId] = IF p.ok THEN p.id ELSE Malformed]
    /\ IF unmarshalErr(p)
       THEN /\ result' = [result EXCEPT ![nextId] = "DecodeError"]
            /\ UNCHANGED <<bpc, bevent, bnotif, bsub>>
       ELSE LET notif == decode(b, p.id, p.text, nextId)
                sub == lookup(subscribers, p.id)
            IN IF sub = None
               THEN /\ result' = [result EXCEPT ![nextId] = "NoSubscriber"]
                    /\ UNCHANGED <<bpc, bevent, bnotif, bsub>>
               ELSE /\ bpc' = [bpc EXCEPT ![b] = "send"]
                    /\ bevent' = [bevent EXCEPT ![b] = p]
                    /\ bnotif' = [bnotif EXCEPT ![b] = notif]
                    /\ bsub' = [bsub EXCEPT ![b] = sub]
                    /\ result' = [result EXCEPT ![nextId] = "pending"]
    /\ UNCHANGED <<mu, subscribers, ch, spc, suser, cancelled, stream,
                   enq, failed, crashed>>

\* a message is published on a subject the service did not subscribe to: the
\* bus hands it to no callback
PublishOtherSubject ==
    /\ ~crashed
    /\ nextId <= MaxMsgs
    /\ nextId' = nextId + 1
    /\ msgUser' = [msgUser EXCEPT ![nextId] = OtherSubject]
    /\ result' = [result EXCEPT ![nextId] = "NotSubscribed"]
    /\ UNCHANGED <<mu, subscribers, ch, spc, suser, cancelled, stream,
                   bpc, bevent, bnotif, bsub, enq, failed, crashed>>

\* ---- broadcast -----------------------------------------------------------
\* select { case sub.ch <- notif: ...; case <-time.After(1 * time.Second): ... }
\* entered: the send completes at once, parks on a full buffer, or panics on a
\* closed channel
BroadcastSend(b) ==
    /\ ~crashed
    /\ bpc[b] = "send"
    /\ LET c == ch[bsub[b]]
       IN IF c.closed
          THEN /\ crashed' = TRUE
               /\ bpc' = [bpc EXCEPT ![b] = "panicked"]
               /\ result' = [result EXCEPT ![bnotif[b].id] = "Panicked"]
               /\ UNCHANGED <<ch, bevent, bnotif, bsub, enq>>
          ELSE IF chanHasRoom(c)
          THEN /\ ch' = [ch EXCEPT ![bsub[b]] = chanPut(c, bnotif[b])]
               /\ enq' = [enq EXCEPT ![bsub[b]] = Append(@, bnotif[b].id)]
               /\ bpc' = [bpc EXCEPT ![b] = "idle"]
               /\ bevent' = [bevent EXCEPT ![b] = NoEvent]
               /\ bnotif' = [bnotif EXCEPT ![b] = NoNotif]
               /\ bsub' = [bsub EXCEPT ![b] = None]
               /\ result' = [result EXCEPT ![bnotif[b].id] = "Delivered"]
               /\ UNCHANGED crashed
          ELSE /\ ch' = [ch EXCEPT ![bsub[b]] = chanPark(c, b)]
               /\ bpc' = [bpc EXCEPT ![b] = "waiting"]
               /\ UNCHANGED <<bevent, bnotif, bsub, result, enq, crashed>>
    /\ UNCHANGED <<mu, subscribers, spc, suser, cancelled, stream,
                   nextId, msgUser, failed>>

\* a timer case that pushes the notification into the buffer anyway
chanTimeoutForce(c, b, n) == [chanUnpark(c, b) EXCEPT !.buf = Append(@, n)]

\* the channel after the timer case of the select won: the sender leaves the
\* send queue and the notification is discarded
chanTimeout(c, b, n) == chanUnpark(c, b)

\* case <-time.After(1 * time.Second): the parked sender gives up
BroadcastTimeout(b) ==
    /\ ~crashed
    /\ bpc[b] = "waiting"
    /\ ch' = [ch EXCEPT ![bsub[b]] = chanTimeout(ch[bsub[b]], b, bnotif[b])]
    /\ bpc' = [bpc EXCEPT ![b] = "idle"]
    /\ bevent' = [bevent EXCEPT ![b] = NoEvent]
    /\ bnotif' = [bnotif EXCEPT ![b] = NoNotif]
    /\ bsub' = [bsub EXCEPT ![b] = None]
    /\ result' = [result EXCEPT ![bnotif[b].id] = "Dropped"]
    /\ UNCHANGED <<mu, subscribers, spc, suser, cancelled, stream,
                   nextId, msgUser, enq, failed, crashed>>

\* ---- the same operations, one step per call on mu --------------------------
\* SubscribeToNotifications: s.mu.Lock() before the registration
RegisterLock(s) ==
    /\ ~crashed
    /\ spc[s] = "Attaching"
    /\ canLock(mu)
    /\ mu' = lockW(mu, s)
    /\ spc' = [spc EXCEPT ![s] = "RegisterLocked"]
    /\ UNCHANGED <<subscribers, ch, suser, cancelled, stream,
                   bpc, bevent, bnotif, bsub, nextId, msgUser, result, enq, failed, crashed>>

\* s.subscribers[userID] = sub
RegisterWrite(s) ==
    /\ ~crashed
    /\ spc[s] = "RegisterLocked"
    /\ subscribers' = register(subscribers, suser[s], s)
    /\ ch' = replaced(ch, lookup(subscribers, suser[s]))
    /\ spc' = [spc EXCEPT ![s] = "RegisterWritten"]
    /\ UNCHANGED <<mu, suser, cancelled, stream,
                   bpc, bevent, bnotif, bsub, nextId, msgUser, result, enq, failed, crashed>>

\* s.mu.Unlock(); the call enters its send loop
RegisterUnlock(s) ==
    /\ ~crashed
    /\ spc[s] = "RegisterWritten"
    /\ mu' = unlockW(mu, s)
    /\ spc' = [spc EXCEPT ![s] = "Active"]
    /\ UNCHANGED <<subscribers, ch, suser, cancelled, stream,
                   bpc, bevent, bnotif, bsub, nextId, msgUser, result, enq, failed, crashed>>

\* deferred: s.mu.Lock()
UnregisterLock(s) ==
    /\ ~crashed
    /\ spc[s] = "Detaching"
    /\ canLock(mu)
    /\ mu' = lockW(mu, s)
    /\ spc' = [spc EXCEPT ![s] = "UnregisterLocked"]
    /\ UNCHANGED <<subscribers, ch, suser, cancelled, stream,
                   bpc, bevent, bnotif, bsub, nextId, msgUser, result, enq, failed, crashed>>

\* deferred: delete(s.subscribers, userID)
UnregisterDelete(s) ==
    /\ ~crashed
    /\ spc[s] = "UnregisterLocked"
    /\ subscribers' = deleteEntry(subscribers, suser[s], s)
    /\ spc' = [spc EXCEPT ![s] = "UnregisterDeleted"]
    /\ UNCHANGED <<mu, ch, suser, cancelled, stream,
                   bpc, bevent, bnotif, bsub, nextId, msgUser, result, enq, failed, crashed>>

\* deferred: s.mu.Unlock(); close(sub.ch) comes next
UnregisterUnlock(s) ==
    /\ ~crashed
    /\ spc[s] = "UnregisterDeleted"
    /\ mu' = unlockW(mu, s)
    /\ spc' = [spc EXCEPT ![s] = "Closing"]
    /\ UNCHANGED <<subscribers, ch, suser, cancelled, stream,
                   bpc, bevent, bnotif, bsub, nextId, msgUser, result, enq, failed, crashed>>

\* The callback of subject b on a bus message, up to the read of the map in
\* broadcast: json.Unmarshal, notif := &pb.Notification{...}, then
\* s.mu.RLock(); sub, ok := s.subscribers[userID] (the callback's own steps
\* before RLock touch only its locals and are taken with it)
BroadcastRLock(b, p) ==
    /\ ~crashed
    /\ bpc[b] = "idle"
    /\ nextId <= MaxMsgs
    /\ nextId' = nextId + 1
    /\ msgUser' = [msgUser EXCEPT ![nextId] = IF p.ok THEN p.id ELSE Malformed]
    /\ IF unmarshalErr(p)
       THEN /\ result' = [result EXCEPT ![nextId] = "DecodeError"]
            /\ UNCHANGED <<mu, bpc, bevent, bnotif, bsub>>
       ELSE /\ canRLock(mu)
            /\ mu' = lockR(mu, b)
            /\ bpc' = [bpc EXCEPT ![b] = "rlocked"]
            /\ bevent' = [bevent EXCEPT ![b] = p]
            /\ bnotif' = [bnotif EXCEPT ![b] = decode(b, p.id, p.text, nextId)]
            /\ bsub' = [bsub EXCEPT ![b] = lookup(subscribers, p.id)]
            /\ result' = [result EXCEPT ![nextId] = "pending"]
    /\ UNCHANGED <<subscribers, ch, spc, suser, cancelled, stream,
                   enq, failed, crashed>>

\* broadcast: s.mu.RUnlock(); if !ok { log; return }; the select comes next
BroadcastRUnlock(b) ==
    /\ ~crashed
    /\ bpc[b] = "rlocked"
    /\ mu' = unlockR(mu, b)
    /\ IF bsub[b] = None
       THEN /\ bpc' = [bpc EXCEPT ![b] = "idle"]
            /\ bevent' = [bevent EXCEPT ![b] = NoEvent]
            /\ bnotif' = [bnotif EXCEPT ![b] = NoNotif]
            /\ result' = [result EXCEPT ![bnotif[b].id] = "NoSubscriber"]
       ELSE /\ bpc' = [bpc EXCEPT ![b] = "send"]
            /\ UNCHANGED <<bevent, bnotif, result>>
    /\ UNCHANGED <<subscribers, ch, spc, suser, cancelled, stream,
                   bsub, nextId, msgUser, enq, failed, crashed>>

\* ---- specification -------------------------------------------------------
Next ==
    \/ \E s \in Sessions, u \in UserIds : HandleWebSocketReject(s, u)
    \/ \E s \in Sessions, u \in UserIds : SubscribeOpen(s, u)
    \/ \E s \in Sessions : SubscribeRegister(s)
    \/ \E s \in Sessions : ContextCancel(s)
    \/ \E s \in Sessions, sendOk \in BOOLEAN : SubscribeRecv(s, sendOk)
    \/ \E s \in Sessions : SubscribeDone(s)
    \/ \E s \in Sessions : SubscribeUnregister(s)
    \/ \E s \in Sessions : SubscribeClose(s)
    \/ \E b \in Subjects : \E p \in Payloads(b) : OnMsg(b, p)
    \/ PublishOtherSubject
    \/ \E b \in Subjects : BroadcastSend(b)
    \/ \E b \in Subjects : BroadcastTimeout(b)

Spec == Init /\ [][Next]_vars

\* the program with every call on mu a step of its own
LockNext ==
    \/ \E s \in Sessions, u \in UserIds : SubscribeOpen(s, u)
    \/ \E s \in Sessions : RegisterLock(s)
    \/ \E s \in Sessions : RegisterWrite(s)
    \/ \E s \in Sessions : RegisterUnlock(s)
    \/ \E s \in Sessions : ContextCancel(s)
    \/ \E s \in Sessions, sendOk \in BOOLEAN : SubscribeRecv(s, sendOk)
    \/ \E s \in Sessions : SubscribeDone(s)
    \/ \E s \in Sessions : UnregisterLock(s)
    \/ \E s \in Sessions : UnregisterDelete(s)
    \/ \E s \in Sessions : UnregisterUnlock(s)
    \/ \E s \in Sessions : SubscribeClose(s)
    \/ \E b \in Subjects : \E p \in Payloads(b) : BroadcastRLock(b, p)
    \/ \E b \in Subjects : BroadcastRUnlock(b)
    \/ \E b \in Subjects : BroadcastSend(b)
    \/ \E b \in Subjects : BroadcastTimeout(b)

LockSpec == Init /\ [][LockNext]_vars

\* Fairness: every goroutine that can take a step is eventually scheduled, a
\* ready select case is eventually chosen, and the one-second timer fires.
Fairness ==
    /\ \A s \in Sessions : WF_vars(SubscribeRegister(s))
    /\ \A s \in Sessions : WF_vars(SubscribeDone(s))
    /\ \A s \in Sessions : WF_vars(SubscribeUnregister(s))
    /\ \A s \in Sessions : WF_vars(SubscribeClose(s))
    /\ \A b \in Subjects : WF_vars(BroadcastSend(b))
    /\ \A b \in Subjects : WF_vars(BroadcastTimeout(b))

FairSpec == Init /\ [][Next]_vars /\ Fairness

TypeOK ==
    /\ subscribers \in [UserIds -> Sessions \cup {None}]
    /\ spc \in [Sessions -> {"Idle", "Rejected", "Attaching", "RegisterLocked",
                             "RegisterWritten", "Active", "Detaching",
                             "UnregisterLocked", "UnregisterDeleted", "Closing",
                             "Detached"}]
    /\ bpc \in [Subjects -> {"idle", "rlocked", "send", "waiting", "panicked"}]
    /\ nextId \in 1..(MaxMsgs + 1)
    /\ crashed \in BOOLEAN
    /\ mu \in [writers : SUBSET Sessions, readers : SUBSET Subjects]

\* ---- properties -----------------------------------------------------------
\* outcomes of a bus message for which broadcast was not called
NotBroadcast == {"unused", "DecodeError", "NotSubscribed"}

InBuf(s) == SeqRange(ch[s].buf)
Streamed(s) == SeqRange(stream[s])
InFlight(b) == bpc[b] \in {"send", "waiting"}

\* C1 (routing correctness): a broadcast that read sub from the map ends with
\* its notif in sub.ch, unless it waited on a full buffer and timed out; a
\* send that finds room in the buffer ends Delivered.
C1_RoutingCorrectness ==
    [][\A b \in Subjects :
        InFlight(b) /\ ~InFlight(b)' =>
            \/ /\ result'[bnotif[b].id] = "Delivered"
               /\ bnotif[b] \in SeqRange(ch'[bsub[b]].buf)
            \/ /\ bpc[b] = "waiting"
               /\ ~chanHasRoom(ch[bsub[b]])
               /\ result'[bnotif[b].id] = "Dropped"]_vars

\* C2 (no cross-recipient leakage): every notification in a session's channel
\* or sent on its stream, and every notification about to be sent to its
\* channel, carries the userId the session registered under.
C2_NoCrossRecipientLeakage ==
    /\ \A s \in Sessions : \A n \in InBuf(s) \cup Streamed(s) : n.userId = suser[s]
    /\ \A b \in Subjects : InFlight(b) => bnotif[b].userId = suser[bsub[b]]

C2_Witness ==
    \E s1, s2 \in Sessions :
        /\ suser[s1] # suser[s2]
        /\ stream[s1] # <<>>
        /\ ch[s2].buf # <<>>

\* C3 (identity-checked unregister): the deferred delete of a session leaves
\* every map entry that holds another session's subscriber in place.
C3_IdentityCheckedUnregister ==
    [][\A s \in Sessions :
        spc[s] = "Detaching" /\ spc'[s] = "Closing" =>
            \A u \in UserIds :
                subscribers[u] # None /\ subscribers[u] # s =>
                    subscribers'[u] = subscribers[u]]_vars

\* a stream for u has registered and not yet run its deferred delete
RegisteredStream(u) ==
    \E s \in Sessions : suser[s] = u /\ spc[s] \in {"Active", "Detaching"}

\* C4 (clean detach): the map never holds the subscriber of a Detached
\* session; and once a stream for u is Detached and no other stream for u is
\* registered, lookup(u) misses and a broadcast for u returns NoSubscriber.
C4_CleanDetach ==
    /\ [](\A s \in Sessions : spc[s] = "Detached" =>
            /\ \A u \in UserIds : lookup(subscribers, u) # s
            /\ (~RegisteredStream(suser[s]) => lookup(subscribers, suser[s]) = None))
    /\ [][\A i \in MsgIds :
            /\ result[i] = "unused"
            /\ result'[i] \notin NotBroadcast
            /\ (\E s \in Sessions : spc[s] = "Detached" /\ suser[s] = msgUser'[i])
            /\ ~RegisteredStream(msgUser'[i])
            => result'[i] = "NoSubscriber"]_vars

C4_Witness ==
    \E s \in Sessions, i, j \in MsgIds :
        /\ spc[s] = "Detached" /\ cancelled[s]
        /\ \A r \in Sessions \ {s} : spc[r] = "Idle"
        /\ j < i
        /\ msgUser[j] = suser[s] /\ result[j] = "Delivered"
        /\ msgUser[i] = suser[s] /\ result[i] = "NoSubscriber"

\* the notifications of bus message i that are anywhere in the server
Holders(i) ==
    {s \in Sessions : \E n \in InBuf(s) \cup Streamed(s) : n.id = i}
    \cup {b \in Subjects : bnotif[b].id = i}

\* C5 (drop under saturation): a broadcast parked on a full buffer that leaves
\* the wait with the buffer as it was (the grace period ran out) returns
\* Dropped; a Dropped return happens only there, changes no channel buffer and
\* no stream; and a dropped notification is in no buffer, on no stream and in
\* no broadcast afterwards.
C5_DropUnderSaturation ==
    /\ [](\A i \in MsgIds : result[i] = "Dropped" => Holders(i) = {})
    /\ [](\A b \in Subjects : bpc[b] = "waiting" => ~chanHasRoom(ch[bsub[b]]))
    /\ [][\A b \in Subjects :
            bpc[b] = "waiting" /\ bpc'[b] # "waiting"
            /\ ch'[bsub[b]].buf = ch[bsub[b]].buf /\ ~crashed'
            => result'[bnotif[b].id] = "Dropped"]_vars
    /\ [][\A i \in MsgIds :
            result[i] # "Dropped" /\ result'[i] = "Dropped" =>
                /\ \E b \in Subjects : bpc[b] = "waiting" /\ bnotif[b].id = i
                                        /\ bpc'[b] = "idle"
                /\ \A s \in Sessions : ch'[s].buf = ch[s].buf
                /\ stream' = stream]_vars

C5_Witness ==
    \E i \in MsgIds, s \in Sessions :
        /\ result[i] = "Dropped"
        /\ msgUser[i] = suser[s]
        /\ spc[s] = "Active"
        /\ Len(ch[s].buf) = ChanCap

\* C6 (NoSubscriber is side-effect free): a broadcast for a userID with no map
\* entry returns NoSubscriber, and a NoSubscriber return changes neither the
\* map nor any channel, stream or session.
C6_NoSubscriberNoEffect ==
    [][\A i \in MsgIds :
        /\ (result[i] = "unused" /\ result'[i] \notin NotBroadcast
            /\ subscribers[msgUser'[i]] = None
            => result'[i] = "NoSubscriber")
        /\ (result[i] = "unused" /\ result'[i] = "NoSubscriber" =>
              /\ subscribers[msgUser'[i]] = None
              /\ UNCHANGED <<subscribers, ch, stream, spc, suser, bpc, bsub, crashed>>)]_vars

C6_Witness ==
    \E i \in MsgIds, s \in Sessions :
        /\ result[i] = "NoSubscriber"
        /\ spc[s] = "Active" /\ suser[s] # msgUser[i]
        /\ subscribers[suser[s]] = s

\* C7 (bounded deliver): every broadcast call eventually returns.
C7_BoundedDeliver ==
    \A b \in Subjects : (bpc[b] # "idle") ~> (bpc[b] = "idle")

\* C7, as far as the code satisfies it: a broadcast returns unless the
\* process panics.
BroadcastReturnsOrPanics ==
    \A b \in Subjects : (bpc[b] # "idle") ~> (bpc[b] = "idle" \/ crashed)

\* C8 (no fatal error): the process never panics, and no broadcast is about to
\* send on a channel its session has closed.
C8_NoFatalError ==
    /\ ~crashed
    /\ \A b \in Subjects : bpc[b] = "send" => ~ch[bsub[b]].closed

\* C9 (mandatory exit cleanup): a session leaves the send loop only into its
\* deferred cleanup, whichever select case ended it; the cleanup deletes the
\* entry, then closes the channel; a session that has ended is not in the map.
C9_MandatoryCleanup ==
    [][\A s \in Sessions :
        /\ (spc[s] = "Active" /\ spc'[s] # "Active" => spc'[s] = "Detaching")
        /\ (spc[s] = "Detaching" /\ spc'[s] # "Detaching" =>
              spc'[s] = "Closing" /\ \A u \in UserIds : subscribers'[u] # s)
        /\ (spc[s] # "Detached" /\ spc'[s] = "Detached" =>
              /\ spc[s] = "Closing"
              /\ ch'[s].closed
              /\ \A u \in UserIds : subscribers'[u] # s)]_vars

C9_Witness ==
    \E s1, s2 \in Sessions :
        /\ spc[s1] = "Detached" /\ ~cancelled[s1] /\ ch[s1].closed
        /\ spc[s2] = "Detached" /\ cancelled[s2] /\ stream[s2] = <<>> /\ ch[s2].buf = <<>>

\* C10 (cancellation is eventually observed): an Active session whose context
\* is cancelled eventually is Detached with its entry gone from the map.
C10_CancellationObserved ==
    \A s \in Sessions :
        (spc[s] = "Active" /\ cancelled[s]) ~>
            (spc[s] = "Detached" /\ \A u \in UserIds : subscribers[u] # s)

\* C10, as far as the code satisfies it: the cancelled session detaches unless
\* the process panics first.
CancelObservedOrPanics ==
    \A s \in Sessions :
        (spc[s] = "Active" /\ cancelled[s]) ~>
            ((spc[s] = "Detached" /\ \A u \in UserIds : subscribers[u] # s) \/ crashed)

\* C11 (empty recipientId is rejected at stream open): a request with an empty
\* userId ends Rejected in the step that takes it, which changes neither the
\* map nor any channel; no session runs under the empty userId and the map
\* holds no entry under it.
C11_EmptyUserIdRejected ==
    /\ [](\A s \in Sessions : suser[s] = "" => spc[s] \in {"Idle", "Rejected"})
    /\ [](subscribers[""] = None)
    /\ [][\A s \in Sessions :
            spc[s] = "Idle" /\ spc'[s] # "Idle" /\ suser'[s] = "" =>
                /\ spc'[s] = "Rejected"
                /\ UNCHANGED <<subscribers, ch, stream>>]_vars

C11_Witness ==
    \E s, r \in Sessions :
        /\ spc[s] = "Rejected" /\ suser[s] = ""
        /\ spc[r] = "Active" /\ subscribers[suser[r]] = r

IdsOf(q) == [k \in 1..Len(q) |-> q[k].id]

\* where the notification of bus message i entered a channel, sits in a
\* channel buffer, and was sent on a stream
EnqPlaces(i) ==
    {p \in Sessions \X (1..MaxMsgs) : p[2] <= Len(enq[p[1]]) /\ enq[p[1]][p[2]] = i}
BufPlaces(i) ==
    {p \in Sessions \X (1..MaxMsgs) :
        p[2] <= Len(ch[p[1]].buf) /\ ch[p[1]].buf[p[2]].id = i}
StreamPlaces(i) ==
    {p \in Sessions \X (1..MaxMsgs) :
        p[2] <= Len(stream[p[1]]) /\ stream[p[1]][p[2]].id = i}

\* C12 (at-most-once): the notification of a bus message enters at most one
\* channel, once, is in at most one buffer slot, and is sent at most once, on
\* the stream of the session whose channel it entered; after a Dropped or
\* NoSubscriber return it is nowhere and its outcome never changes.
C12_AtMostOnce ==
    /\ [](\A i \in MsgIds :
            /\ Cardinality(EnqPlaces(i)) <= 1
            /\ Cardinality(BufPlaces(i)) <= 1
            /\ Cardinality(StreamPlaces(i)) <= 1
            /\ Cardinality(BufPlaces(i) \cup StreamPlaces(i)) <= 1
            /\ \A p \in BufPlaces(i) \cup StreamPlaces(i) :
                  \E e \in EnqPlaces(i) : e[1] = p[1]
            /\ (result[i] \in {"Dropped", "NoSubscriber"} =>
                  EnqPlaces(i) = {} /\ Holders(i) = {}))
    /\ [][\A i \in MsgIds :
            result[i] \in {"Dropped", "NoSubscriber"} => result'[i] = result[i]]_vars

C12_Witness ==
    \E i, j \in MsgIds :
        /\ result[i] = "Delivered" /\ StreamPlaces(i) # {}
        /\ result[j] = "Dropped"

IsPrefix(p, q) == Len(p) <= Len(q) /\ \A k \in 1..Len(p) : p[k] = q[k]

C14_DecodeRejection ==
    /\ [][\A i \in MsgIds :
            result[i] = "unused" /\ msgUser'[i] \in {Malformed, OtherSubject} =>
                /\ result'[i] = (IF msgUser'[i] = Malformed
                                 THEN "DecodeError" ELSE "NotSubscribed")
                /\ UNCHANGED <<subscribers, ch, stream, spc, suser, cancelled,
                               bpc, bevent, bnotif, bsub, enq, failed, crashed>>]_vars
    /\ [](\A i \in MsgIds :
            result[i] \in {"DecodeError", "NotSubscribed"} =>
                /\ msgUser[i] \in {Malformed, OtherSubject}
                /\ Holders(i) = {} /\ EnqPlaces(i) = {})
    /\ [][\A i \in MsgIds :
            result[i] \in {"DecodeError", "NotSubscribed"} => result'[i] = result[i]]_vars

\* a rejected message, and the next one delivered
C14_Witness ==
    \E i, j \in MsgIds :
        /\ i < j
        /\ result[i] = "DecodeError"
        /\ result[j] = "Delivered" /\ StreamPlaces(j) # {}

\* C15 (non-empty recipientId at the fan-out): every bus message for which
\* broadcast was called carried a non-empty recipient id.
C15_NonEmptyRecipient ==
    \A i \in MsgIds : result[i] \notin NotBroadcast => msgUser[i] # ""

Superseded(t, s, u) ==
    /\ t # s
    /\ suser[t] = u /\ suser[s] = u
    /\ spc[t] \in {"Active", "Detaching", "Closing", "Detached"}
    /\ subscribers[u] = s

\* C17 (last writer wins): once a second stream s has replaced the entry of a
\* first stream t for the same user, lookup returns s for as long as s stays
\* Active (or until a later stream replaces it in turn), and a broadcast that
\* looks the user up from then on takes s's channel, never t's.
C17_LastWriterWins ==
    /\ [][\A u \in Users : \A s, t \in Sessions :
            Superseded(t, s, u) /\ spc[s] = "Active" /\ spc'[s] = "Active" =>
                \/ lookup(subscribers', u) = s
                \/ \E x \in Sessions :
                      spc[x] = "Attaching" /\ lookup(subscribers', u) = x]_vars
    /\ [][\A u \in Users : \A s, t \in Sessions : \A b \in Subjects :
            Superseded(t, s, u) /\ bpc[b] = "idle" /\ bpc'[b] # "idle" =>
                bsub'[b] # t]_vars

\* C18 (replacing an entry leaves the previous sink alone): the step in which
\* a registration replaces the entry of session t changes neither t's channel
\* (not closed, same queued notifications, same parked senders) nor t's
\* session, stream or context; and a superseded session leaves Active only on
\* its own cancellation or on its own failed stream.Send.
C18_ReplaceLeavesPrevious ==
    /\ [][\A u \in Users : \A t \in Sessions :
            lookup(subscribers, u) = t /\ lookup(subscribers', u) \notin {t, None} =>
                /\ ch'[t] = ch[t]
                /\ spc'[t] = spc[t]
                /\ stream'[t] = stream[t]
                /\ cancelled'[t] = cancelled[t]]_vars
    /\ [][\A u \in Users : \A s, t \in Sessions :
            Superseded(t, s, u) /\ spc[t] = "Active" /\ spc'[t] # "Active" =>
                \/ cancelled[t] /\ spc'[t] = afterContextDone
                \/ failed[t] = None /\ failed'[t] # None /\ spc'[t] = afterSendError]_vars

\* a superseded session still Active with a notification queued on its open
\* channel, next to the Active session that replaced it
C18_Witness ==
    \E u \in Users : \E s, t \in Sessions :
        /\ Superseded(t, s, u)
        /\ spc[t] = "Active" /\ spc[s] = "Active"
        /\ ch[t].buf # <<>> /\ ~ch[t].closed
        /\ enq[s] = <<>>

\* the sessions that have left the send loop
LeftLoop == {"Detaching", "Closing", "Detached"}

\* C19 (nothing pushed after detach): a session that has left Active sends
\* nothing more on its stream, and a notification still queued on its channel
\* (broadcast returned after enqueuing it) is on no stream: it is dropped with
\* the channel and no client ever receives it.
C19_NoPushAfterDetach ==
    /\ [][\A s \in Sessions : spc[s] \in LeftLoop => stream'[s] = stream[s]]_vars
    /\ [](\A s \in Sessions :
            spc[s] \in LeftLoop =>
                \A k \in 1..Len(ch[s].buf) : StreamPlaces(ch[s].buf[k].id) = {})
    /\ [][\A s \in Sessions :
            spc[s] = "Detached" => spc'[s] = "Detached" /\ ch'[s] = ch[s]]_vars

\* a Detached session whose closed channel still holds a notification for
\* which broadcast had returned after enqueuing it
C19_Witness ==
    \E s \in Sessions :
        /\ spc[s] = "Detached"
        /\ ch[s].buf # <<>>
        /\ result[Head(ch[s].buf).id] = "Delivered"
        /\ ~crashed

\* C20 (a failed stream.Send ends the session): the step in which a session's
\* stream.Send fails takes the session from Active into its cleanup with the
\* failed notification taken off the channel and not put on the stream; from
\* then on the session is in its cleanup or Detached, its stream does not
\* grow, and the failed notification is in no channel and on no stream.
C20_SendFailureDetaches ==
    /\ [][\A s \in Sessions :
            failed[s] = None /\ failed'[s] # None =>
                /\ spc[s] = "Active" /\ spc'[s] = "Detaching"
                /\ Head(ch[s].buf).id = failed'[s]
                /\ stream'[s] = stream[s]]_vars
    /\ [](\A s \in Sessions :
            failed[s] # None =>
                /\ spc[s] \in LeftLoop
                /\ BufPlaces(failed[s]) = {} /\ StreamPlaces(failed[s]) = {}
                /\ \A b \in Subjects : bnotif[b].id # failed[s])
    /\ [][\A s \in Sessions :
            failed[s] # None =>
                /\ failed'[s] = failed[s]
                /\ stream'[s] = stream[s]
                /\ (spc'[s] # spc[s] =>
                      <<spc[s], spc'[s]>> \in {<<"Detaching", "Closing">>,
                                               <<"Closing", "Detached">>})]_vars

\* a session Detached after a failed Send, a later notification left unsent
\* on its closed channel
C20_Witness ==
    \E s \in Sessions :
        /\ failed[s] # None
        /\ spc[s] = "Detached" /\ ch[s].closed
        /\ ch[s].buf # <<>> /\ Head(ch[s].buf).id > failed[s]
        /\ \A u \in UserIds : subscribers[u] # s

\* C21 (a stream never ends spontaneously): a session leaves Active only by
\* the context case of its select, its context cancelled, or by a failed
\* stream.Send of its own; a step that drops a notification, and any step of
\* another session (its registration, its cleanup), leaves the session Active.
C21_NoSpontaneousEnd ==
    /\ [][\A s \in Sessions :
            spc[s] = "Active" /\ spc'[s] # "Active" =>
                \/ /\ cancelled[s]
                   /\ spc'[s] = afterContextDone
                   /\ failed'[s] = failed[s]
                \/ /\ failed[s] = None /\ failed'[s] # None
                   /\ spc'[s] = afterSendError]_vars
    /\ [][\A s \in Sessions :
            /\ spc[s] = "Active"
            /\ \/ \E i \in MsgIds : result[i] # "Dropped" /\ result'[i] = "Dropped"
               \/ \E t \in Sessions \ {s} : spc'[t] # spc[t]
               \/ subscribers' # subscribers
            => spc'[s] = "Active"]_vars

\* a session still Active, its context not cancelled, with nothing queued,
\* after a notification for its user was dropped and another session of the
\* same user registered and detached
C21_Witness ==
    \E s, t \in Sessions :
        /\ s # t /\ suser[t] = suser[s]
        /\ spc[s] = "Active" /\ ~cancelled[s] /\ failed[s] = None
        /\ ch[s].buf = <<>>
        /\ spc[t] = "Detached"
        /\ \E i \in MsgIds : result[i] = "Dropped" /\ msgUser[i] = suser[s]

\* the steps of a call of SubscribeToNotifications, in order; Detaching and
\* Closing are the two halves of the deferred cleanup (delete, then close)
Lifecycle ==
    {<<"Idle", "Attaching">>, <<"Idle", "Rejected">>, <<"Attaching", "Active">>,
     <<"Active", "Detaching">>, <<"Detaching", "Closing">>, <<"Closing", "Detached">>}

\* C22 (linear lifecycle): a session moves only forward along Attaching,
\* Active, cleanup, Detached, and Detached is final; its subscriber enters the
\* map in the one step from Attaching to Active and in no other; its channel
\* is closed in the one step that completes the cleanup, open until then and
\* never reopened.
C22_LinearLifecycle ==
    /\ [][\A s \in Sessions :
            spc'[s] # spc[s] => <<spc[s], spc'[s]>> \in Lifecycle]_vars
    /\ [][\A s \in Sessions :
            /\ (spc[s] = "Attaching" /\ spc'[s] = "Active" =>
                   lookup(subscribers', suser[s]) = s)
            /\ \A u \in UserIds :
                   lookup(subscribers, u) # s /\ lookup(subscribers', u) = s =>
                       spc[s] = "Attaching" /\ spc'[s] = "Active" /\ u = suser[s]]_vars
    /\ [][\A s \in Sessions :
            /\ (spc[s] = "Closing" /\ spc'[s] # "Closing" =>
                   ~ch[s].closed /\ ch'[s].closed)
            /\ (ch'[s].closed # ch[s].closed =>
                   spc[s] = "Closing" /\ spc'[s] = "Detached")]_vars

\* a session that sent notifications, was cancelled and completed its cleanup,
\* while the other session of the same user is Active
C22_Witness ==
    \E s, t \in Sessions :
        /\ spc[s] = "Detached" /\ cancelled[s] /\ ch[s].closed
        /\ stream[s] # <<>>
        /\ s # t /\ suser[t] = suser[s] /\ spc[t] = "Active"
        /\ ~crashed

\* C23 (queue bound): the buffer of every sub.ch holds at most the capacity
\* the channel was made with, however many broadcasts send to it or wait on it.
C23_QueueBound ==
    \A s \in Sessions : Len(ch[s].buf) <= ChanCap

\* a full buffer with a broadcast parked on it and the session able to receive
C23_Witness ==
    \E s \in Sessions :
        /\ Len(ch[s].buf) = ChanCap
        /\ ch[s].sendq # <<>>
        /\ spc[s] = "Active"

\* C24 (sink ownership): the buffer of a session's channel changes only by a
\* send of broadcast, which appends the notif of a callback holding that
\* session's sub, or by a receive of the session itself, which takes the head
\* and puts it on its own stream (or fails to); no other session's stream or
\* failure record changes in that step, and everything on a session's stream
\* entered that session's own channel.
C24_SinkOwnership ==
    /\ [][\A s \in Sessions :
            ch'[s].buf # ch[s].buf =>
                IF \E b \in Subjects : ch'[s].buf = Append(ch[s].buf, bnotif[b])
                THEN \E b \in Subjects :
                        /\ bsub[b] = s /\ bpc[b] = "send" /\ bpc'[b] = "idle"
                        /\ ch'[s].buf = Append(ch[s].buf, bnotif[b])
                        /\ stream' = stream /\ spc' = spc
                ELSE /\ spc[s] = "Active"
                     /\ ch[s].buf # <<>>
                     /\ \/ ch'[s].buf = Tail(ch[s].buf)
                        \/ \E b \in Subjects :
                              /\ bsub[b] = s /\ bpc[b] = "waiting"
                              /\ ch'[s].buf = Append(Tail(ch[s].buf), bnotif[b])
                     /\ \/ stream'[s] = Append(stream[s], Head(ch[s].buf))
                        \/ failed[s] = None /\ failed'[s] = Head(ch[s].buf).id
                     /\ \A t \in Sessions \ {s} :
                           stream'[t] = stream[t] /\ failed'[t] = failed[t]]_vars
    /\ [](\A s \in Sessions : \A k \in 1..Len(stream[s]) :
            \E j \in 1..Len(enq[s]) : enq[s][j] = stream[s][k].id)

\* two Active sessions of one user, each having sent on its stream a
\* notification that entered its own channel
C24_Witness ==
    \E s, t \in Sessions :
        /\ s # t /\ suser[s] = suser[t]
        /\ spc[s] = "Active" /\ spc[t] = "Active"
        /\ stream[s] # <<>> /\ stream[t] # <<>>

\* the goroutines between their Lock and Unlock, and between RLock and RUnlock
WriteSections ==
    {s \in Sessions : spc[s] \in {"RegisterLocked", "RegisterWritten",
                                  "UnregisterLocked", "UnregisterDeleted"}}
ReadSections == {b \in Subjects : bpc[b] = "rlocked"}

\* C25 (registry atomicity): mu is held exactly by the goroutines inside their
\* critical sections, so not by a broadcast in its select; at most one
\* goroutine holds it for writing and then none holds it for reading; the map
\* changes only in a step of the one goroutine holding mu for writing, and
\* does not change while any goroutine holds mu for reading; broadcast reads
\* the map holding mu for reading with no writer inside.
C25_RegistryAtomicity ==
    /\ [](mu.writers = WriteSections /\ mu.readers = ReadSections)
    /\ [](/\ Cardinality(mu.writers) <= 1
          /\ (mu.writers # {} => mu.readers = {}))
    /\ [](\A b \in Subjects : bpc[b] \in {"send", "waiting"} => b \notin mu.readers)
    /\ [][subscribers' # subscribers =>
            \E s \in Sessions :
                /\ mu.writers = {s} /\ mu'.writers = {s}
                /\ mu.readers = {} /\ mu'.readers = {}
                /\ spc'[s] # spc[s]
                /\ \A t \in Sessions \ {s} : spc'[t] = spc[t]]_vars
    /\ [][mu.readers # {} => subscribers' = subscribers]_vars
    /\ [][\A b \in Subjects :
            bpc[b] = "idle" /\ bpc'[b] # "idle" =>
                /\ b \in mu'.readers /\ mu'.writers = {}
                /\ bsub'[b] = lookup(subscribers, bnotif'[b].userId)]_vars

\* a session inside its registration, holding mu for writing, while another
\* session waits to lock it for its cleanup and a broadcast is in its select
C25_Witness ==
    \E s, t \in Sessions : \E b \in Subjects :
        /\ spc[s] = "RegisterWritten" /\ mu.writers = {s}
        /\ spc[t] = "Detaching"
        /\ bpc[b] = "waiting"
        /\ ~crashed

====
